---- MODULE Spec2Model ----
(***************************************************************************)
(* Model of the eligibility scoring engine of the student-backend          *)
(* repository (src/shared/eligibilityCalculator.ts) and of the request     *)
(* handlers that call it (src/server/routes.ts) over the in-memory storage *)
(* (src/server/index.ts).                                                  *)
(*                                                                         *)
(* A call of calculateEligibilityScore is modelled statement by statement: *)
(* the locals of the call (score, strengths, weaknesses and the four       *)
(* category scores) are the state, and one action models each of the       *)
(* statements of lines 11-35.  The category scorers, the suggestion ladder *)
(* and the JavaScript conversions parseFloat / parseInt are operators.     *)
(*                                                                         *)
(* Representation                                                          *)
(*   optional field   <<>> when the property is undefined/null, <<v>> when *)
(*                    it holds v                                           *)
(*   categorical      a TLA+ string ("phd", "yes", "", ...)                *)
(*   numeric string   a sequence of one-character strings, <<"7",".","5">> *)
(*   number           [nan |-> BOOLEAN, v |-> Int], v in tenths (7.5 is    *)
(*                    75); every numeric string of the model has at most   *)
(*                    one decimal, so the tenths are exact                 *)
(*   message          [text |-> the template, args |-> the numbers that    *)
(*                    the template literal interpolates]                   *)
(*                                                                         *)
(* A request handler is one action: the middleware chain, the body of the  *)
(* route and every storage call it makes.  The storage is the sequence of  *)
(* stored submissions in insertion order; the id of a submission is its    *)
(* position.  The contact fields of a submission (fullName, email, phone,  *)
(* country, city) are not read by any scorer and are kept as one flag of   *)
(* the request body that says whether they pass validation.                *)
(***************************************************************************)
EXTENDS Integers, Sequences, FiniteSets, TLC

VARIABLES submission, pc, score, strengths, weaknesses,
          educationScore, languageScore, workScore, financialScore,
          isEligible, suggestion, first,
          submissions, request, response

\* the locals of a call of the engine and the caller's record of a result
engineVars == <<submission, pc, score, strengths, weaknesses,
                educationScore, languageScore, workScore, financialScore,
                isEligible, suggestion, first>>

\* the storage, the request being answered and the answer to it
serverVars == <<submissions, request, response>>

vars == <<engineVars, serverVars>>

-----------------------------------------------------------------------------
(* Optional properties of Partial<Submission>.                              *)

Absent == <<>>

Some(x) == <<x>>

\* JavaScript truthiness of an optional categorical string
Truthy(f) == f # Absent /\ f[1] # ""

\* JavaScript truthiness of an optional numeric string
TruthyNum(f) == f # Absent /\ Len(f[1]) > 0

\* f === lit
Is(f, lit) == f = Some(lit)

-----------------------------------------------------------------------------
(* Numbers.                                                                 *)

NaN == [nan |-> TRUE, v |-> 0]

Num(n) == [nan |-> FALSE, v |-> n]

\* the decimal literal i.f of the source, in tenths
Dec(i, f) == i * 10 + f

\* x >= t of IEEE-754: false whenever x is NaN
GE(x, t) == ~x.nan /\ x.v >= t

\* x > t
GT(x, t) == ~x.nan /\ x.v > t

Digits == {"0", "1", "2", "3", "4", "5", "6", "7", "8", "9"}

DigitVal(c) ==
  CASE c = "0" -> 0 [] c = "1" -> 1 [] c = "2" -> 2 [] c = "3" -> 3
    [] c = "4" -> 4 [] c = "5" -> 5 [] c = "6" -> 6 [] c = "7" -> 7
    [] c = "8" -> 8 [] c = "9" -> 9

\* index of the first character of s at or after i that is not white space
RECURSIVE SkipSpace(_, _)
SkipSpace(s, i) ==
  IF i <= Len(s) /\ s[i] = " " THEN SkipSpace(s, i + 1) ELSE i

\* index of the first character of s at or after i that is not a digit
RECURSIVE DigitsEnd(_, _)
DigitsEnd(s, i) ==
  IF i <= Len(s) /\ s[i] \in Digits THEN DigitsEnd(s, i + 1) ELSE i

\* value of the digits s[i..j-1]
RECURSIVE DigitsVal(_, _, _)
DigitsVal(s, i, j) ==
  IF j <= i THEN 0 ELSE DigitsVal(s, i, j - 1) * 10 + DigitVal(s[j - 1])

\* parseInt(s): leading white space, an optional sign, then the longest run
\* of decimal digits; NaN when there is no digit.  The result is in tenths.
parseInt(s) ==
  LET a    == SkipSpace(s, 1)
      neg  == a <= Len(s) /\ s[a] = "-"
      b    == IF a <= Len(s) /\ s[a] \in {"-", "+"} THEN a + 1 ELSE a
      e    == DigitsEnd(s, b)
  IN  IF e = b THEN NaN
      ELSE Num((IF neg THEN -1 ELSE 1) * DigitsVal(s, b, e) * 10)

\* parseFloat(s): leading white space, an optional sign, digits, an optional
\* point followed by digits; the longest such prefix is converted and the
\* rest of the string is ignored; NaN when the prefix holds no digit.
parseFloat(s) ==
  LET a    == SkipSpace(s, 1)
      neg  == a <= Len(s) /\ s[a] = "-"
      b    == IF a <= Len(s) /\ s[a] \in {"-", "+"} THEN a + 1 ELSE a
      e    == DigitsEnd(s, b)
      dot  == e <= Len(s) /\ s[e] = "."
      fe   == IF dot THEN DigitsEnd(s, e + 1) ELSE e
      frac == IF dot /\ fe > e + 1 THEN DigitVal(s[e + 1]) ELSE 0
  IN  IF e = b /\ (~dot \/ fe = e + 1) THEN NaN
      ELSE Num((IF neg THEN -1 ELSE 1) * (DigitsVal(s, b, e) * 10 + frac))

-----------------------------------------------------------------------------
(* Messages.                                                                *)

Msg(t) == [text |-> t, args |-> <<>>]

MsgN(t, n) == [text |-> t, args |-> <<n>>]

\* the value a category scorer leaves behind: its return value and the two
\* arrays it was handed, after its pushes
Out(s, st, wk) == [score |-> s, strengths |-> st, weaknesses |-> wk]

-----------------------------------------------------------------------------
(* The category scorers.  Each takes the submission and the two arrays of   *)
(* the call and yields its points with the arrays after its pushes.         *)

\* calculateEducationScore with the thresholds of the 12th scale (85, 70) in
\* the percentage branch of bachelor
calculateEducationScoreTwelfthScale(sub, st, wk) ==
  LET educationGrade == sub.educationGrade
      gradeType      == sub.gradeType
      grade          == parseFloat(educationGrade[1])
  IN
  IF Is(sub.education, "phd") THEN
    Out(35, Append(st, Msg("Exceptional academic credentials (PhD)")), wk)
  ELSE IF Is(sub.education, "master") THEN
    Out(30, Append(st, Msg("Strong academic background (Master's degree)")), wk)
  ELSE IF Is(sub.education, "bachelor") THEN
    IF TruthyNum(educationGrade) /\ Truthy(gradeType) THEN
      IF Is(gradeType, "cgpa") THEN
        IF GE(grade, Dec(8, 5)) THEN
          Out(25 + 5, Append(st, MsgN("Excellent Bachelor's CGPA (${grade})", grade)), wk)
        ELSE IF GE(grade, Dec(7, 0)) THEN
          Out(25 + 3, Append(st, MsgN("Good Bachelor's CGPA (${grade})", grade)), wk)
        ELSE IF GE(grade, Dec(6, 0)) THEN
          Out(25 + 1, st, Append(wk, MsgN("Bachelor's CGPA could be higher (${grade}/10)", grade)))
        ELSE
          Out(25, st, Append(wk, MsgN("Low Bachelor's CGPA (${grade}/10) - consider academic improvement", grade)))
      ELSE
        IF GE(grade, Dec(85, 0)) THEN
          Out(25 + 5, Append(st, MsgN("Excellent Bachelor's performance (${grade}%)", grade)), wk)
        ELSE IF GE(grade, Dec(70, 0)) THEN
          Out(25 + 3, Append(st, MsgN("Good Bachelor's performance (${grade}%)", grade)), wk)
        ELSE
          Out(25, st, Append(wk, MsgN("Bachelor's grade could be higher (${grade}%)", grade)))
    ELSE
      Out(25, st, wk)
  ELSE IF Is(sub.education, "12th") THEN
    IF TruthyNum(educationGrade) THEN
      IF GE(grade, Dec(85, 0)) THEN
        Out(20 + 5, Append(st, MsgN("Excellent academic performance (${grade}% in 12th)", grade)), wk)
      ELSE IF GE(grade, Dec(70, 0)) THEN
        Out(20 + 3, Append(st, MsgN("Good academic performance (${grade}% in 12th)", grade)), wk)
      ELSE IF GE(grade, Dec(60, 0)) THEN
        Out(20 + 1, st, Append(wk, MsgN("12th grade could be stronger (${grade}%)", grade)))
      ELSE
        Out(20, st, Append(wk, MsgN("Low 12th grade (${grade}%) - may need foundation programs", grade)))
    ELSE
      Out(20, st, wk)
  ELSE IF Is(sub.education, "10th") THEN
    Out(15, st, Append(wk, Msg("Minimum education qualification - consider completing 12th")))
  ELSE
    Out(0, st, wk)

\* calculateEducationScore with the guard of line 54 (grade and gradeType)
\* in place of the guard of line 84
calculateEducationScoreTwelfthByType(sub, st, wk) ==
  LET educationGrade == sub.educationGrade
      gradeType      == sub.gradeType
      grade          == parseFloat(educationGrade[1])
  IN
  IF Is(sub.education, "phd") THEN
    Out(35, Append(st, Msg("Exceptional academic credentials (PhD)")), wk)
  ELSE IF Is(sub.education, "master") THEN
    Out(30, Append(st, Msg("Strong academic background (Master's degree)")), wk)
  ELSE IF Is(sub.education, "bachelor") THEN
    IF TruthyNum(educationGrade) /\ Truthy(gradeType) THEN
      IF Is(gradeType, "cgpa") THEN
        IF GE(grade, Dec(8, 5)) THEN
          Out(25 + 5, Append(st, MsgN("Excellent Bachelor's CGPA (${grade})", grade)), wk)
        ELSE IF GE(grade, Dec(7, 0)) THEN
          Out(25 + 3, Append(st, MsgN("Good Bachelor's CGPA (${grade})", grade)), wk)
        ELSE IF GE(grade, Dec(6, 0)) THEN
          Out(25 + 1, st, Append(wk, MsgN("Bachelor's CGPA could be higher (${grade}/10)", grade)))
        ELSE
          Out(25, st, Append(wk, MsgN("Low Bachelor's CGPA (${grade}/10) - consider academic improvement", grade)))
      ELSE
        IF GE(grade, Dec(75, 0)) THEN
          Out(25 + 5, Append(st, MsgN("Excellent Bachelor's performance (${grade}%)", grade)), wk)
        ELSE IF GE(grade, Dec(60, 0)) THEN
          Out(25 + 3, Append(st, MsgN("Good Bachelor's performance (${grade}%)", grade)), wk)
        ELSE
          Out(25, st, Append(wk, MsgN("Bachelor's grade could be higher (${grade}%)", grade)))
    ELSE
      Out(25, st, wk)
  ELSE IF Is(sub.education, "12th") THEN
    IF TruthyNum(educationGrade) /\ Truthy(gradeType) THEN
      IF GE(grade, Dec(85, 0)) THEN
        Out(20 + 5, Append(st, MsgN("Excellent academic performance (${grade}% in 12th)", grade)), wk)
      ELSE IF GE(grade, Dec(70, 0)) THEN
        Out(20 + 3, Append(st, MsgN("Good academic performance (${grade}% in 12th)", grade)), wk)
      ELSE IF GE(grade, Dec(60, 0)) THEN
        Out(20 + 1, st, Append(wk, MsgN("12th grade could be stronger (${grade}%)", grade)))
      ELSE
        Out(20, st, Append(wk, MsgN("Low 12th grade (${grade}%) - may need foundation programs", grade)))
    ELSE
      Out(20, st, wk)
  ELSE IF Is(sub.education, "10th") THEN
    Out(15, st, Append(wk, Msg("Minimum education qualification - consider completing 12th")))
  ELSE
    Out(0, st, wk)

\* calculateEducationScore, lines 37-105
calculateEducationScore(sub, st, wk) ==
  LET educationGrade == sub.educationGrade
      gradeType      == sub.gradeType
      grade          == parseFloat(educationGrade[1])
  IN
  IF Is(sub.education, "phd") THEN
    Out(35, Append(st, Msg("Exceptional academic credentials (PhD)")), wk)
  ELSE IF Is(sub.education, "master") THEN
    Out(30, Append(st, Msg("Strong academic background (Master's degree)")), wk)
  ELSE IF Is(sub.education, "bachelor") THEN
    IF TruthyNum(educationGrade) /\ Truthy(gradeType) THEN
      IF Is(gradeType, "cgpa") THEN
        IF GE(grade, Dec(8, 5)) THEN
          Out(25 + 5, Append(st, MsgN("Excellent Bachelor's CGPA (${grade})", grade)), wk)
        ELSE IF GE(grade, Dec(7, 0)) THEN
          Out(25 + 3, Append(st, MsgN("Good Bachelor's CGPA (${grade})", grade)), wk)
        ELSE IF GE(grade, Dec(6, 0)) THEN
          Out(25 + 1, st, Append(wk, MsgN("Bachelor's CGPA could be higher (${grade}/10)", grade)))
        ELSE
          Out(25, st, Append(wk, MsgN("Low Bachelor's CGPA (${grade}/10) - consider academic improvement", grade)))
      ELSE
        IF GE(grade, Dec(75, 0)) THEN
          Out(25 + 5, Append(st, MsgN("Excellent Bachelor's performance (${grade}%)", grade)), wk)
        ELSE IF GE(grade, Dec(60, 0)) THEN
          Out(25 + 3, Append(st, MsgN("Good Bachelor's performance (${grade}%)", grade)), wk)
        ELSE
          Out(25, st, Append(wk, MsgN("Bachelor's grade could be higher (${grade}%)", grade)))
    ELSE
      Out(25, st, wk)
  ELSE IF Is(sub.education, "12th") THEN
    IF TruthyNum(educationGrade) THEN
      IF GE(grade, Dec(85, 0)) THEN
        Out(20 + 5, Append(st, MsgN("Excellent academic performance (${grade}% in 12th)", grade)), wk)
      ELSE IF GE(grade, Dec(70, 0)) THEN
        Out(20 + 3, Append(st, MsgN("Good academic performance (${grade}% in 12th)", grade)), wk)
      ELSE IF GE(grade, Dec(60, 0)) THEN
        Out(20 + 1, st, Append(wk, MsgN("12th grade could be stronger (${grade}%)", grade)))
      ELSE
        Out(20, st, Append(wk, MsgN("Low 12th grade (${grade}%) - may need foundation programs", grade)))
    ELSE
      Out(20, st, wk)
  ELSE IF Is(sub.education, "10th") THEN
    Out(15, st, Append(wk, Msg("Minimum education qualification - consider completing 12th")))
  ELSE
    Out(0, st, wk)

NoLanguageTest ==
  Msg("No English language test provided - IELTS/TOEFL/PTE required for admission")

\* the IELTS branch of calculateLanguageScore, lines 119-134, with the bands
\* for 6.0 and 6.5 exchanged
ieltsBandsSwapped(overallScore, st, wk) ==
  IF GE(overallScore, Dec(7, 5)) THEN
    Out(30, Append(st, MsgN("Excellent IELTS score (Overall ${overallScore})", overallScore)), wk)
  ELSE IF GE(overallScore, Dec(6, 5)) THEN
    Out(20, Append(st, MsgN("Good IELTS score (Overall ${overallScore})", overallScore)), wk)
  ELSE IF GE(overallScore, Dec(6, 0)) THEN
    Out(25, Append(st, MsgN("Strong IELTS score (Overall ${overallScore})", overallScore)), wk)
  ELSE IF GE(overallScore, Dec(5, 5)) THEN
    Out(15, st, Append(wk, MsgN("IELTS score acceptable but could be higher (${overallScore})", overallScore)))
  ELSE
    Out(10, st, Append(wk, MsgN("Low IELTS score (${overallScore}) - retake recommended", overallScore)))

\* the IELTS branch of calculateLanguageScore, lines 119-134
ieltsBands(overallScore, st, wk) ==
  IF GE(overallScore, Dec(7, 5)) THEN
    Out(30, Append(st, MsgN("Excellent IELTS score (Overall ${overallScore})", overallScore)), wk)
  ELSE IF GE(overallScore, Dec(6, 5)) THEN
    Out(25, Append(st, MsgN("Strong IELTS score (Overall ${overallScore})", overallScore)), wk)
  ELSE IF GE(overallScore, Dec(6, 0)) THEN
    Out(20, Append(st, MsgN("Good IELTS score (Overall ${overallScore})", overallScore)), wk)
  ELSE IF GE(overallScore, Dec(5, 5)) THEN
    Out(15, st, Append(wk, MsgN("IELTS score acceptable but could be higher (${overallScore})", overallScore)))
  ELSE
    Out(10, st, Append(wk, MsgN("Low IELTS score (${overallScore}) - retake recommended", overallScore)))

\* calculateLanguageScore with the no-test weakness pushed for a languageTest
\* that is none of ielts, toefl, pte as well
calculateLanguageScoreOtherTestWeakness(sub, st, wk) ==
  LET languageTest == sub.languageTest
      ieltsScore   == sub.ieltsScore
      overallScore == parseFloat(ieltsScore[1])
  IN
  IF Is(sub.hasLanguageTest, "yes") /\ Truthy(languageTest) /\ TruthyNum(ieltsScore) THEN
    IF Is(languageTest, "ielts") THEN
      ieltsBands(overallScore, st, wk)
    ELSE IF Is(languageTest, "toefl") THEN
      IF GE(overallScore, Dec(100, 0)) THEN
        Out(30, Append(st, MsgN("Excellent TOEFL score (${overallScore})", overallScore)), wk)
      ELSE IF GE(overallScore, Dec(90, 0)) THEN
        Out(25, Append(st, MsgN("Strong TOEFL score (${overallScore})", overallScore)), wk)
      ELSE IF GE(overallScore, Dec(80, 0)) THEN
        Out(20, Append(st, MsgN("Good TOEFL score (${overallScore})", overallScore)), wk)
      ELSE
        Out(15, st, Append(wk, MsgN("TOEFL score could be improved (${overallScore})", overallScore)))
    ELSE IF Is(languageTest, "pte") THEN
      IF GE(overallScore, Dec(70, 0)) THEN
        Out(30, Append(st, MsgN("Excellent PTE score (${overallScore})", overallScore)), wk)
      ELSE IF GE(overallScore, Dec(60, 0)) THEN
        Out(25, Append(st, MsgN("Strong PTE score (${overallScore})", overallScore)), wk)
      ELSE IF GE(overallScore, Dec(50, 0)) THEN
        Out(20, Append(st, MsgN("Good PTE score (${overallScore})", overallScore)), wk)
      ELSE
        Out(15, st, Append(wk, MsgN("PTE score needs improvement (${overallScore})", overallScore)))
    ELSE
      Out(0, st, Append(wk, NoLanguageTest))
  ELSE
    Out(0, st, Append(wk, NoLanguageTest))

\* calculateLanguageScore, lines 107-171
calculateLanguageScore(sub, st, wk) ==
  LET languageTest == sub.languageTest
      ieltsScore   == sub.ieltsScore
      overallScore == parseFloat(ieltsScore[1])
  IN
  IF Is(sub.hasLanguageTest, "yes") /\ Truthy(languageTest) /\ TruthyNum(ieltsScore) THEN
    IF Is(languageTest, "ielts") THEN
      ieltsBands(overallScore, st, wk)
    ELSE IF Is(languageTest, "toefl") THEN
      IF GE(overallScore, Dec(100, 0)) THEN
        Out(30, Append(st, MsgN("Excellent TOEFL score (${overallScore})", overallScore)), wk)
      ELSE IF GE(overallScore, Dec(90, 0)) THEN
        Out(25, Append(st, MsgN("Strong TOEFL score (${overallScore})", overallScore)), wk)
      ELSE IF GE(overallScore, Dec(80, 0)) THEN
        Out(20, Append(st, MsgN("Good TOEFL score (${overallScore})", overallScore)), wk)
      ELSE
        Out(15, st, Append(wk, MsgN("TOEFL score could be improved (${overallScore})", overallScore)))
    ELSE IF Is(languageTest, "pte") THEN
      IF GE(overallScore, Dec(70, 0)) THEN
        Out(30, Append(st, MsgN("Excellent PTE score (${overallScore})", overallScore)), wk)
      ELSE IF GE(overallScore, Dec(60, 0)) THEN
        Out(25, Append(st, MsgN("Strong PTE score (${overallScore})", overallScore)), wk)
      ELSE IF GE(overallScore, Dec(50, 0)) THEN
        Out(20, Append(st, MsgN("Good PTE score (${overallScore})", overallScore)), wk)
      ELSE
        Out(15, st, Append(wk, MsgN("PTE score needs improvement (${overallScore})", overallScore)))
    ELSE
      Out(0, st, wk)
  ELSE
    Out(0, st, Append(wk, NoLanguageTest))

\* calculateWorkExperienceScore with > in place of >= at the three-year band
calculateWorkExperienceScoreStrict(sub, st, wk) ==
  LET workExperienceYears == sub.workExperienceYears
      years               == parseInt(workExperienceYears[1])
  IN
  IF Is(sub.hasWorkExperience, "yes") /\ TruthyNum(workExperienceYears) THEN
    IF GE(years, Dec(5, 0)) THEN
      Out(15, Append(st, MsgN("Extensive work experience (${years} years)", years)), wk)
    ELSE IF GT(years, Dec(3, 0)) THEN
      Out(12, Append(st, MsgN("Good work experience (${years} years)", years)), wk)
    ELSE IF GE(years, Dec(1, 0)) THEN
      Out(10, Append(st, MsgN(IF GT(years, Dec(1, 0))
                               THEN "Relevant work experience (${years} years)"
                               ELSE "Relevant work experience (${years} year)", years)), wk)
    ELSE
      Out(5, Append(st, Msg("Some work experience")), wk)
  ELSE
    Out(5, st, wk)

\* calculateWorkExperienceScore without the 5 points of lines 197-199
calculateWorkExperienceScoreNoFloor(sub, st, wk) ==
  LET workExperienceYears == sub.workExperienceYears
      years               == parseInt(workExperienceYears[1])
  IN
  IF Is(sub.hasWorkExperience, "yes") /\ TruthyNum(workExperienceYears) THEN
    IF GE(years, Dec(5, 0)) THEN
      Out(15, Append(st, MsgN("Extensive work experience (${years} years)", years)), wk)
    ELSE IF GE(years, Dec(3, 0)) THEN
      Out(12, Append(st, MsgN("Good work experience (${years} years)", years)), wk)
    ELSE IF GE(years, Dec(1, 0)) THEN
      Out(10, Append(st, MsgN(IF GT(years, Dec(1, 0))
                               THEN "Relevant work experience (${years} years)"
                               ELSE "Relevant work experience (${years} year)", years)), wk)
    ELSE
      Out(5, Append(st, Msg("Some work experience")), wk)
  ELSE
    Out(0, st, wk)

\* calculateWorkExperienceScore, lines 173-202
calculateWorkExperienceScore(sub, st, wk) ==
  LET workExperienceYears == sub.workExperienceYears
      years               == parseInt(workExperienceYears[1])
  IN
  IF Is(sub.hasWorkExperience, "yes") /\ TruthyNum(workExperienceYears) THEN
    IF GE(years, Dec(5, 0)) THEN
      Out(15, Append(st, MsgN("Extensive work experience (${years} years)", years)), wk)
    ELSE IF GE(years, Dec(3, 0)) THEN
      Out(12, Append(st, MsgN("Good work experience (${years} years)", years)), wk)
    ELSE IF GE(years, Dec(1, 0)) THEN
      Out(10, Append(st, MsgN(IF GT(years, Dec(1, 0))
                               THEN "Relevant work experience (${years} years)"
                               ELSE "Relevant work experience (${years} year)", years)), wk)
    ELSE
      Out(5, Append(st, Msg("Some work experience")), wk)
  ELSE
    Out(5, st, wk)

\* calculateFinancialScore with 25 points for above-60
calculateFinancialScoreTwentyFive(sub, st, wk) ==
  IF Is(sub.financialCapacity, "above-60") THEN
    Out(25, Append(st, Msg("Excellent financial capacity (Above 60 Lakhs)")), wk)
  ELSE IF Is(sub.financialCapacity, "40-60") THEN
    Out(17, Append(st, Msg("Strong financial capacity (40-60 Lakhs)")), wk)
  ELSE IF Is(sub.financialCapacity, "20-40") THEN
    Out(14, Append(st, Msg("Adequate financial capacity (20-40 Lakhs)")), wk)
  ELSE IF Is(sub.financialCapacity, "below-20") THEN
    Out(10, st, Append(wk, Msg("Limited financial capacity - consider education loans")))
  ELSE
    Out(10, st, wk)

\* calculateFinancialScore with unshift in place of push
calculateFinancialScoreUnshift(sub, st, wk) ==
  IF Is(sub.financialCapacity, "above-60") THEN
    Out(20, <<Msg("Excellent financial capacity (Above 60 Lakhs)")>> \o st, wk)
  ELSE IF Is(sub.financialCapacity, "40-60") THEN
    Out(17, <<Msg("Strong financial capacity (40-60 Lakhs)")>> \o st, wk)
  ELSE IF Is(sub.financialCapacity, "20-40") THEN
    Out(14, <<Msg("Adequate financial capacity (20-40 Lakhs)")>> \o st, wk)
  ELSE IF Is(sub.financialCapacity, "below-20") THEN
    Out(10, st, <<Msg("Limited financial capacity - consider education loans")>> \o wk)
  ELSE
    Out(10, st, wk)

\* calculateFinancialScore, lines 204-229
calculateFinancialScore(sub, st, wk) ==
  IF Is(sub.financialCapacity, "above-60") THEN
    Out(20, Append(st, Msg("Excellent financial capacity (Above 60 Lakhs)")), wk)
  ELSE IF Is(sub.financialCapacity, "40-60") THEN
    Out(17, Append(st, Msg("Strong financial capacity (40-60 Lakhs)")), wk)
  ELSE IF Is(sub.financialCapacity, "20-40") THEN
    Out(14, Append(st, Msg("Adequate financial capacity (20-40 Lakhs)")), wk)
  ELSE IF Is(sub.financialCapacity, "below-20") THEN
    Out(10, st, Append(wk, Msg("Limited financial capacity - consider education loans")))
  ELSE
    Out(10, st, wk)

Excellent == "Excellent! You have a very strong profile for Canada study visa. Your application is highly competitive."

Great == "Great! You have a strong profile for Canada study visa. Focus on the minor improvements mentioned to maximize your chances."

Good == "Good! You have a solid profile for Canada study visa. Consider addressing the areas for improvement to strengthen your application."

Potential == "You have potential for Canada study visa. We strongly recommend working on the areas mentioned to improve your chances significantly."

NeedsImprovement == "Your profile needs improvement before applying. Our counselors can provide personalized guidance to strengthen your application."

\* generateSuggestion with the brackets at 80 / 70 / 60 / 50
generateSuggestionShifted(sc, wk) ==
  IF sc >= 80 THEN Excellent
  ELSE IF sc >= 70 THEN Great
  ELSE IF sc >= 60 THEN Good
  ELSE IF sc >= 50 THEN Potential
  ELSE NeedsImprovement

\* generateSuggestion, lines 231-243
generateSuggestion(sc, wk) ==
  IF sc >= 85 THEN Excellent
  ELSE IF sc >= 75 THEN Great
  ELSE IF sc >= 65 THEN Good
  ELSE IF sc >= 55 THEN Potential
  ELSE NeedsImprovement

Min(a, b) == IF a <= b THEN a ELSE b

Max(a, b) == IF a >= b THEN a ELSE b

\* lines 21-23 with the education points added to a score that already
\* holds them, and without the clamp
totalScoreUnclamped(e, l, w, f) == e + (e + l + w + f)

\* lines 21-23: the sum of the four contributions, clamped to [0, 100]
totalScore(e, l, w, f) == Min(Max(e + l + w + f, 0), 100)

\* line 25 with the cutoff of the report handler
eligibleSeventy(sc) == sc >= 70

\* line 25
eligible(sc) == sc >= 60

-----------------------------------------------------------------------------
(* The submissions the engine is called with.                               *)

Fields ==
  {"education", "educationGrade", "gradeType", "hasLanguageTest",
   "languageTest", "ieltsScore", "hasWorkExperience", "workExperienceYears",
   "financialCapacity"}

Opt(S) == {Absent} \cup {Some(x) : x \in S}

\* the values of each field: absent, empty, unrecognized or unparsable, and
\* recognized values on both sides of every threshold of the rubric
Values ==
  [education           |-> Opt({"phd", "master", "bachelor", "12th", "10th", "diploma"}),
   educationGrade      |-> Opt({<<>>, <<"a", "b", "c">>,
                                <<"5", ".", "5">>, <<"6", ".", "0">>,
                                <<"7", ".", "5">>, <<"8", ".", "5">>,
                                <<"6", "0">>, <<"7", "0">>, <<"8", "5">>}),
   gradeType           |-> Opt({"cgpa", "percentage", ""}),
   hasLanguageTest     |-> Opt({"yes", "no"}),
   languageTest        |-> Opt({"ielts", "toefl", "pte", "duolingo", ""}),
   ieltsScore          |-> Opt({<<>>, <<"a", "b", "c">>,
                                <<"5", ".", "0">>, <<"5", ".", "5">>,
                                <<"6", ".", "0">>, <<"6", ".", "5">>,
                                <<"7", ".", "5">>, <<"8", ".", "0">>,
                                <<"5", "0">>, <<"6", "0">>, <<"7", "0">>,
                                <<"8", "0">>, <<"9", "0">>, <<"9", "5">>,
                                <<"1", "0", "0">>}),
   hasWorkExperience   |-> Opt({"yes", "no"}),
   workExperienceYears |-> Opt({<<>>, <<"a", "b", "c">>, <<"0">>, <<"1">>,
                                <<"2", ".", "5">>, <<"3">>, <<"5">>, <<"6">>}),
   financialCapacity   |-> Opt({"above-60", "40-60", "20-40", "below-20", "10-20"})]

\* the submission with every property undefined
EmptyProfile == [f \in Fields |-> Absent]

PhdProfile ==
  [education           |-> Some("phd"),
   educationGrade      |-> Absent,
   gradeType           |-> Absent,
   hasLanguageTest     |-> Some("yes"),
   languageTest        |-> Some("ielts"),
   ieltsScore          |-> Some(<<"8", ".", "0">>),
   hasWorkExperience   |-> Some("yes"),
   workExperienceYears |-> Some(<<"6">>),
   financialCapacity   |-> Some("above-60")]

\* the profile that holds education "10th" and nothing else
TenthProfile == [EmptyProfile EXCEPT !.education = Some("10th")]

BachelorProfile ==
  [education           |-> Some("bachelor"),
   educationGrade      |-> Some(<<"7", ".", "5">>),
   gradeType           |-> Some("cgpa"),
   hasLanguageTest     |-> Some("yes"),
   languageTest        |-> Some("toefl"),
   ieltsScore          |-> Some(<<"9", "5">>),
   hasWorkExperience   |-> Some("yes"),
   workExperienceYears |-> Some(<<"3">>),
   financialCapacity   |-> Some("20-40")]

BaseProfiles == {EmptyProfile, PhdProfile, BachelorProfile}

\* the number of fields in which a submission may differ from a base profile
MaxEdits == 2

\* the changes of one field: the field and its new value
Edits == UNION {{<<f, x>> : x \in Values[f]} : f \in Fields}

\* the profiles of S after at most n changes of a field (a change may
\* write the value the field already holds)
RECURSIVE Edited(_, _)
Edited(S, n) ==
  IF n = 0 THEN S
  ELSE {[p EXCEPT ![e[1]] = e[2]] : p \in Edited(S, n - 1), e \in Edits}

Profiles == Edited(BaseProfiles, MaxEdits)

\* the submissions that are scored more than once in a behaviour
TrackedProfiles == BaseProfiles

-----------------------------------------------------------------------------
(* The engine as the request handlers call it.                              *)

\* lines 21-34: the result from the outputs e, l, w, f of the four scorers
resultOf(e, l, w, f) ==
  [score |-> totalScore(e.score, l.score, w.score, f.score),
   isEligible |-> eligible(totalScore(e.score, l.score, w.score, f.score)),
   strengths |-> f.strengths,
   weaknesses |-> f.weaknesses,
   suggestion |-> generateSuggestion(totalScore(e.score, l.score, w.score, f.score),
                                     f.weaknesses)]

\* line 19 and what follows it
fromFinancial(p, e, l, w) ==
  resultOf(e, l, w, calculateFinancialScore(p, w.strengths, w.weaknesses))

\* line 18 and what follows it
fromWork(p, e, l) ==
  fromFinancial(p, e, l, calculateWorkExperienceScore(p, l.strengths, l.weaknesses))

\* line 17 and what follows it
fromLanguage(p, e) ==
  fromWork(p, e, calculateLanguageScore(p, e.strengths, e.weaknesses))

\* calculateEligibilityScore, lines 11-35, as a function of the submission:
\* the four scorers run in order on the two arrays, which start empty
calculateEligibilityScore(p) ==
  fromLanguage(p, calculateEducationScore(p, <<>>, <<>>))

-----------------------------------------------------------------------------
(* The storage (MemStorage of src/server/index.ts).                         *)

\* a stored submission: the columns that a scorer or a handler reads; null
\* and undefined are both <<>>
StoredSubmission(education, financialCapacity, eligibilityScore, status) ==
  [education |-> education, financialCapacity |-> financialCapacity,
   eligibilityScore |-> eligibilityScore, status |-> status,
   otpCode |-> Absent, otpVerified |-> FALSE]

\* seedSampleData: the five submissions the storage starts with
sampleSubmissions ==
  << StoredSubmission(Some("Bachelor's Degree"), Some("$20,000+"), Some(85), "approved"),
     StoredSubmission(Some("Master's Degree"), Some("$30,000+"), Some(92), "approved"),
     StoredSubmission(Some("Bachelor's Degree"), Some("$15,000-$20,000"), Some(70), "pending"),
     StoredSubmission(Some("Master's Degree"), Some("$25,000+"), Some(88), "approved"),
     StoredSubmission(Some("Bachelor's Degree"), Some("$10,000-$15,000"), Some(65), "pending") >>

\* how many submissions the handlers may add to the seeded ones
MaxSubmissions == 1

\* the storage has room for one more submission
HasRoom == Len(submissions) < Len(sampleSubmissions) + MaxSubmissions

\* the ids a request may name: the last seeded submission, every id a
\* created submission can take and one the storage never holds
RequestIds == Len(sampleSubmissions)..(Len(sampleSubmissions) + MaxSubmissions + 1)

\* what the engine reads of an object that has the columns of the
\* submissions table: education and financialCapacity, every other property
\* the scorers look at is undefined
asProfile(data) ==
  [EmptyProfile EXCEPT !.education = data.education,
                       !.financialCapacity = data.financialCapacity]

\* MemStorage.getSubmissions: newest first; the seeded submissions are dated
\* in the order of their insertion, and a created one is dated now
getSubmissions(store) ==
  [i \in 1..Len(store) |-> store[Len(store) + 1 - i]]

\* MemStorage.getSubmission
getSubmission(store, id) ==
  IF id \in DOMAIN store THEN Some(store[id]) ELSE Absent

\* MemStorage.createSubmission: the new submission takes the next id, keeps
\* the columns of the table and drops every other property of its argument
createSubmission(store, insertSubmission) ==
  Append(store,
         StoredSubmission(insertSubmission.education,
                          insertSubmission.financialCapacity,
                          insertSubmission.eligibilityScore,
                          IF Truthy(insertSubmission.status)
                          THEN insertSubmission.status[1] ELSE "pending"))

\* MemStorage.updateSubmissionStatus
updateSubmissionStatus(store, id, status) ==
  IF id \in DOMAIN store THEN [store EXCEPT ![id].status = status] ELSE store

\* storage.updateSubmissionOtp: the code is kept with the submission
updateSubmissionOtp(store, id, otp) ==
  IF id \in DOMAIN store THEN [store EXCEPT ![id].otpCode = Some(otp)] ELSE store

\* storage.verifyOtp: the code is accepted when the submission exists and
\* the code is the one kept with it; an accepted submission is marked
\* verified
verifyOtp(store, id, otp) ==
  IF id \in DOMAIN store /\ store[id].otpCode = Some(otp)
  THEN [isValid |-> TRUE, store |-> [store EXCEPT ![id].otpVerified = TRUE]]
  ELSE [isValid |-> FALSE, store |-> store]

\* storage.updateEligibilityScore
updateEligibilityScore(store, id, sc) ==
  IF id \in DOMAIN store THEN [store EXCEPT ![id].eligibilityScore = Some(sc)] ELSE store

-----------------------------------------------------------------------------
(* Requests and responses.                                                  *)

JWT_SECRET == "JWT_SECRET"

\* a bearer token: the key that signed it, whether it has expired, and the
\* role of its payload
Token(key, expired, role) == [key |-> key, expired |-> expired, role |-> role]

AdminToken == Token(JWT_SECRET, FALSE, "admin")

Tokens ==
  { AdminToken,
    Token(JWT_SECRET, FALSE, "user"),
    Token(JWT_SECRET, TRUE, "admin"),
    Token("another key", FALSE, "admin") }

\* the authorization header, split at the spaces: none, the scheme alone, or
\* the scheme and a token
Headers == {Absent, Some(<<"Bearer">>)} \cup {Some(<<"Bearer", t>>) : t \in Tokens}

\* jwt.verify(token, JWT_SECRET) returns the payload
jwtVerifies(token) == token.key = JWT_SECRET /\ ~token.expired

\* authenticateToken, lines 33-56: the status and error it answers with, or
\* status 0 and the decoded user when it calls next()
authenticateToken(authHeader) ==
  LET token == IF authHeader # Absent /\ Len(authHeader[1]) >= 2
               THEN Some(authHeader[1][2]) ELSE Absent
  IN  IF token = Absent
      THEN [status |-> 401, error |-> "Access token required", user |-> Absent]
      ELSE IF jwtVerifies(token[1])
           THEN [status |-> 0, error |-> "", user |-> Some([role |-> token[1].role])]
           ELSE [status |-> 403, error |-> "Invalid or expired token", user |-> Absent]

\* requireAdmin without the test of the role
requireAdminAnyRole(user) ==
  IF user = Absent THEN 403 ELSE 0

\* requireAdmin, lines 57-66: the status it answers with, or 0 when it calls
\* next()
requireAdmin(user) ==
  IF user = Absent \/ user[1].role # "admin" THEN 403 ELSE 0

\* the chain authenticateToken, requireAdmin of the admin routes: the status
\* and error a middleware answers with, or status 0 when the route's handler
\* runs
adminOnly(authHeader) ==
  LET a == authenticateToken(authHeader)
  IN  IF a.status # 0
      THEN [status |-> a.status, error |-> a.error]
      ELSE [status |-> requireAdmin(a.user), error |-> "Admin access required"]

\* a request: the route, the authorization header, the :id parameter and
\* the body
Request(route, authorization, id, body) ==
  [route |-> route, authorization |-> authorization, id |-> id, body |-> body]

\* a response: the status, the body, and the submissions the handler passed
\* to the engine, in order
Response(status, body, engineCalls) ==
  [status |-> status, body |-> body, engineCalls |-> engineCalls]

NoBody == <<>>

Error(message) == [error |-> message]

\* the codes that eligibility/submit may draw
Otps == {"123456"}

\* the codes a verify-otp body may carry: the code above, another code of
\* six characters and one of five characters
BodyOtps == Otps \cup {"654321", "12345"}

\* the bodies of POST /api/submissions: whether the contact columns are
\* valid, the properties of a profile, and the eligibilityScore and status
\* the client sends
IntakeProfiles == {EmptyProfile, PhdProfile, TenthProfile}

IntakeBodies ==
  [contact : {TRUE}, profile : IntakeProfiles,
   eligibilityScore : {Absent, Some(Dec(99, 0)), Some(Dec(99, 5))},
   status : {Absent, Some("approved")}]
  \cup
  [contact : {FALSE}, profile : {PhdProfile},
   eligibilityScore : {Absent}, status : {Absent, Some("approved")}]

\* insertSubmissionSchema.parse (part_001, lines 33-36): <<>> for a ZodError,
\* else the validated data, which has the columns of the table only; the
\* contact columns and education are required strings, eligibilityScore is
\* an optional integer (the body carries it as a number in tenths)
insertSubmissionSchemaParse(body) ==
  IF /\ body.contact
     /\ body.profile.education # Absent
     /\ \/ body.eligibilityScore = Absent
        \/ body.eligibilityScore[1] % 10 = 0
  THEN Some([education |-> body.profile.education,
             financialCapacity |-> body.profile.financialCapacity,
             eligibilityScore |-> IF body.eligibilityScore = Absent THEN Absent
                                  ELSE Some(body.eligibilityScore[1] \div 10),
             status |-> body.status])
  ELSE Absent

\* the argument of createSubmission with the validated data spread last
intakeRecordBodyWins(validatedData, eligibilityResult) ==
  [education |-> validatedData.education,
   financialCapacity |-> validatedData.financialCapacity,
   eligibilityScore |-> IF validatedData.eligibilityScore # Absent
                        THEN validatedData.eligibilityScore
                        ELSE Some(eligibilityResult.score),
   status |-> IF validatedData.status # Absent
              THEN validatedData.status
              ELSE Some(IF eligibilityResult.isEligible THEN "approved" ELSE "pending")]

\* the argument of createSubmission at routes.ts lines 135-139
intakeRecord(validatedData, eligibilityResult) ==
  [education |-> validatedData.education,
   financialCapacity |-> validatedData.financialCapacity,
   eligibilityScore |-> Some(eligibilityResult.score),
   status |-> Some(IF eligibilityResult.isEligible THEN "approved" ELSE "pending")]

\* the argument of createSubmission at routes.ts lines 200-208: no column of
\* the profile
contactRecord ==
  [education |-> Absent, financialCapacity |-> Absent,
   eligibilityScore |-> Absent, status |-> Some("pending")]

\* the report's verdict with the cutoff of the engine
reportEligibleSixty(eligibilityScore) ==
  eligibilityScore # Absent /\ eligibilityScore[1] >= 60

\* routes.ts line 507: submission.eligibilityScore! >= 70, false for null
reportEligible(eligibilityScore) ==
  eligibilityScore # Absent /\ eligibilityScore[1] >= 70

-----------------------------------------------------------------------------
(* One call of calculateEligibilityScore, lines 11-35.                      *)

NoCall == <<>>

sub == submission[1]

\* the EligibilityResult object of lines 28-34
Result ==
  [score |-> score, isEligible |-> isEligible, strengths |-> strengths,
   weaknesses |-> weaknesses, suggestion |-> suggestion]

Init ==
  /\ pc = "idle"
  /\ submission = Absent
  /\ score = 0
  /\ strengths = <<>>
  /\ weaknesses = <<>>
  /\ educationScore = 0
  /\ languageScore = 0
  /\ workScore = 0
  /\ financialScore = 0
  /\ isEligible = FALSE
  /\ suggestion = ""
  /\ first = NoCall
  /\ submissions = sampleSubmissions
  /\ request = Request("none", Absent, 0, NoBody)
  /\ response = Response(0, NoBody, <<>>)

\* the submissions the next call may carry: the first call of a behaviour
\* takes any profile, a later one a tracked profile
Callable == IF submission = Absent THEN Profiles ELSE TrackedProfiles

\* a call whose two arrays are shared by all calls instead of being created
\* at lines 13-14
CallSharedArrays(p) ==
  /\ pc = "idle"
  /\ submission' = Some(p)
  /\ score' = 0
  /\ educationScore' = 0
  /\ languageScore' = 0
  /\ workScore' = 0
  /\ financialScore' = 0
  /\ isEligible' = FALSE
  /\ suggestion' = ""
  /\ pc' = "education"
  /\ UNCHANGED <<strengths, weaknesses, first>>
  /\ UNCHANGED serverVars

\* lines 11-14: entry with the submission p; score is 0 and the two arrays
\* are new and empty
Call(p) ==
  /\ pc = "idle"
  /\ submission' = Some(p)
  /\ score' = 0
  /\ strengths' = <<>>
  /\ weaknesses' = <<>>
  /\ educationScore' = 0
  /\ languageScore' = 0
  /\ workScore' = 0
  /\ financialScore' = 0
  /\ isEligible' = FALSE
  /\ suggestion' = ""
  /\ pc' = "education"
  /\ UNCHANGED first
  /\ UNCHANGED serverVars

\* line 16
Education ==
  /\ pc = "education"
  /\ LET r == calculateEducationScore(sub, strengths, weaknesses)
     IN  /\ educationScore' = r.score
         /\ strengths' = r.strengths
         /\ weaknesses' = r.weaknesses
  /\ pc' = "language"
  /\ UNCHANGED <<submission, score, languageScore, workScore, financialScore,
                 isEligible, suggestion, first>>
  /\ UNCHANGED serverVars

\* line 17
Language ==
  /\ pc = "language"
  /\ LET r == calculateLanguageScore(sub, strengths, weaknesses)
     IN  /\ languageScore' = r.score
         /\ strengths' = r.strengths
         /\ weaknesses' = r.weaknesses
  /\ pc' = "work"
  /\ UNCHANGED <<submission, score, educationScore, workScore, financialScore,
                 isEligible, suggestion, first>>
  /\ UNCHANGED serverVars

\* line 18
Work ==
  /\ pc = "work"
  /\ LET r == calculateWorkExperienceScore(sub, strengths, weaknesses)
     IN  /\ workScore' = r.score
         /\ strengths' = r.strengths
         /\ weaknesses' = r.weaknesses
  /\ pc' = "financial"
  /\ UNCHANGED <<submission, score, educationScore, languageScore, financialScore,
                 isEligible, suggestion, first>>
  /\ UNCHANGED serverVars

\* line 19
Financial ==
  /\ pc = "financial"
  /\ LET r == calculateFinancialScore(sub, strengths, weaknesses)
     IN  /\ financialScore' = r.score
         /\ strengths' = r.strengths
         /\ weaknesses' = r.weaknesses
  /\ pc' = "aggregate"
  /\ UNCHANGED <<submission, score, educationScore, languageScore, workScore,
                 isEligible, suggestion, first>>
  /\ UNCHANGED serverVars

\* lines 21-26: sum, clamp, verdict and suggestion
Aggregate ==
  /\ pc = "aggregate"
  /\ score' = totalScore(educationScore, languageScore, workScore, financialScore)
  /\ isEligible' = eligible(score')
  /\ suggestion' = generateSuggestion(score', weaknesses)
  /\ pc' = "done"
  /\ UNCHANGED <<submission, strengths, weaknesses, educationScore,
                 languageScore, workScore, financialScore, first>>
  /\ UNCHANGED serverVars

\* lines 28-34: the result object goes to the caller, who may keep the
\* result of a tracked profile to compare it with a later call
Return ==
  /\ pc = "done"
  /\ pc' = "idle"
  /\ \/ first' = first
     \/ /\ first = NoCall
        /\ sub \in TrackedProfiles
        /\ first' = Some([submission |-> sub, result |-> Result])
  /\ UNCHANGED <<submission, score, strengths, weaknesses, educationScore,
                 languageScore, workScore, financialScore, isEligible, suggestion>>
  /\ UNCHANGED serverVars

Next ==
  \/ \E p \in Callable : Call(p)
  \/ Education
  \/ Language
  \/ Work
  \/ Financial
  \/ Aggregate
  \/ Return

Spec == Init /\ [][Next]_vars

-----------------------------------------------------------------------------
(* The request handlers of src/server/routes.ts.  Every handler leaves the  *)
(* locals of the engine alone: it calls the engine as a function.           *)

\* lines 70-82: GET /api/submissions
GetSubmissions(authorization) ==
  /\ request' = Request("GET /api/submissions", authorization, 0, NoBody)
  /\ LET denied == adminOnly(authorization)
     IN  response' = IF denied.status # 0
                     THEN Response(denied.status, Error(denied.error), <<>>)
                     ELSE Response(200, getSubmissions(submissions), <<>>)
  /\ UNCHANGED <<submissions, engineVars>>

\* lines 85-100: GET /api/submissions/:id
GetSubmissionById(authorization, id) ==
  /\ request' = Request("GET /api/submissions/:id", authorization, id, NoBody)
  /\ LET denied == adminOnly(authorization)
         found  == getSubmission(submissions, id)
     IN  response' = IF denied.status # 0
                     THEN Response(denied.status, Error(denied.error), <<>>)
                     ELSE IF found = Absent
                     THEN Response(404, Error("Submission not found"), <<>>)
                     ELSE Response(200, found[1], <<>>)
  /\ UNCHANGED <<submissions, engineVars>>

\* lines 104-125: GET /api/submissions/public/:id
GetPublicSubmission(id) ==
  /\ request' = Request("GET /api/submissions/public/:id", Absent, id, NoBody)
  /\ LET found == getSubmission(submissions, id)
     IN  response' =
           IF found = Absent
           THEN Response(404, Error("Submission not found"), <<>>)
           ELSE LET eligibilityResult == calculateEligibilityScore(asProfile(found[1]))
                IN  Response(200,
                             [eligibilityScore |-> found[1].eligibilityScore,
                              status |-> found[1].status,
                              eligibilityDetails |-> eligibilityResult],
                             <<asProfile(found[1])>>)
  /\ UNCHANGED <<submissions, engineVars>>

\* lines 128-154: POST /api/submissions
CreateSubmission(body) ==
  /\ request' = Request("POST /api/submissions", Absent, 0, body)
  /\ LET parsed == insertSubmissionSchemaParse(body)
     IN  IF parsed = Absent
         THEN /\ response' = Response(400, Error("Invalid submission data"), <<>>)
              /\ UNCHANGED submissions
         ELSE LET validatedData     == parsed[1]
                  eligibilityResult == calculateEligibilityScore(asProfile(validatedData))
                  store == createSubmission(submissions,
                                            intakeRecord(validatedData, eligibilityResult))
              IN  /\ HasRoom
                  /\ submissions' = store
                  /\ response' = Response(201, store[Len(store)], <<asProfile(validatedData)>>)
  /\ UNCHANGED engineVars

\* lines 157-179: PATCH /api/submissions/:id/status
UpdateStatus(authorization, id, status) ==
  /\ request' = Request("PATCH /api/submissions/:id/status", authorization, id,
                        [status |-> status])
  /\ LET denied == adminOnly(authorization)
     IN  IF denied.status # 0
         THEN /\ response' = Response(denied.status, Error(denied.error), <<>>)
              /\ UNCHANGED submissions
         ELSE IF ~Truthy(status)
         THEN /\ response' = Response(400, Error("Status is required"), <<>>)
              /\ UNCHANGED submissions
         ELSE IF getSubmission(submissions, id) = Absent
         THEN /\ response' = Response(404, Error("Submission not found"), <<>>)
              /\ UNCHANGED submissions
         ELSE /\ submissions' = updateSubmissionStatus(submissions, id, status[1])
              /\ response' = Response(200, submissions'[id], <<>>)
  /\ UNCHANGED engineVars

\* lines 184-238: POST /api/eligibility/submit; contact says whether the body
\* passes contactSchema and otp is the code drawn at line 197
SubmitContact(contact, otp) ==
  /\ request' = Request("POST /api/eligibility/submit", Absent, 0, [contact |-> contact])
  /\ IF ~contact
     THEN /\ response' = Response(400, Error("Invalid contact information"), <<>>)
          /\ UNCHANGED submissions
     ELSE LET created == createSubmission(submissions, contactRecord)
              id      == Len(created)
          IN  /\ HasRoom
              /\ submissions' = updateSubmissionOtp(created, id, otp)
              /\ response' = Response(200, [id |-> id, message |-> "OTP sent to WhatsApp"], <<>>)
  /\ UNCHANGED engineVars

\* POST /api/eligibility/verify-otp without the return of lines 254-256
VerifyOtpUnchecked(body) ==
  /\ request' = Request("POST /api/eligibility/verify-otp", Absent, 0, body)
  /\ IF body.submissionId = Absent \/ Len(body.otp) # 6
     THEN /\ response' = Response(400, Error("Invalid OTP format"), <<>>)
          /\ UNCHANGED submissions
     ELSE LET submissionId == body.submissionId[1]
              verified     == verifyOtp(submissions, submissionId, body.otp)
              found        == getSubmission(verified.store, submissionId)
          IN  IF found = Absent
              THEN /\ response' = Response(404, Error("Submission not found"), <<>>)
                   /\ submissions' = verified.store
              ELSE LET eligibilityResult == calculateEligibilityScore(asProfile(found[1]))
                   IN  /\ submissions' = updateEligibilityScore(verified.store, submissionId,
                                                                eligibilityResult.score)
                       /\ response' = Response(200,
                                               [score |-> eligibilityResult.score,
                                                message |-> eligibilityResult.suggestion,
                                                isEligible |-> eligibilityResult.isEligible],
                                               <<asProfile(found[1])>>)
  /\ UNCHANGED engineVars

\* lines 241-291: POST /api/eligibility/verify-otp
VerifyOtp(body) ==
  /\ request' = Request("POST /api/eligibility/verify-otp", Absent, 0, body)
  /\ IF body.submissionId = Absent \/ Len(body.otp) # 6
     THEN /\ response' = Response(400, Error("Invalid OTP format"), <<>>)
          /\ UNCHANGED submissions
     ELSE LET submissionId == body.submissionId[1]
              verified     == verifyOtp(submissions, submissionId, body.otp)
              found        == getSubmission(verified.store, submissionId)
          IN  IF ~verified.isValid
              THEN /\ response' = Response(400, Error("Invalid OTP code"), <<>>)
                   /\ submissions' = verified.store
              ELSE IF found = Absent
              THEN /\ response' = Response(404, Error("Submission not found"), <<>>)
                   /\ submissions' = verified.store
              ELSE LET eligibilityResult == calculateEligibilityScore(asProfile(found[1]))
                   IN  /\ submissions' = updateEligibilityScore(verified.store, submissionId,
                                                                eligibilityResult.score)
                       /\ response' = Response(200,
                                               [score |-> eligibilityResult.score,
                                                message |-> eligibilityResult.suggestion,
                                                isEligible |-> eligibilityResult.isEligible],
                                               <<asProfile(found[1])>>)
  /\ UNCHANGED engineVars

\* lines 386-398: GET /api/contact-messages; the messages are not part of
\* the state
GetContactMessages(authorization) ==
  /\ request' = Request("GET /api/contact-messages", authorization, 0, NoBody)
  /\ LET denied == adminOnly(authorization)
     IN  response' = IF denied.status # 0
                     THEN Response(denied.status, Error(denied.error), <<>>)
                     ELSE Response(200, [messages |-> "all"], <<>>)
  /\ UNCHANGED <<submissions, engineVars>>

\* lines 441-528: GET /api/eligibility/download-pdf/:id; the body is what
\* lines 504 and 514 print
DownloadPdf(id) ==
  /\ request' = Request("GET /api/eligibility/download-pdf/:id", Absent, id, NoBody)
  /\ LET found == getSubmission(submissions, id)
     IN  response' =
           IF found = Absent
           THEN Response(404, Error("Not found"), <<>>)
           ELSE Response(200,
                         [eligibilityScore |-> found[1].eligibilityScore,
                          verdict |-> IF reportEligible(found[1].eligibilityScore)
                                      THEN "Eligible" ELSE "Not Eligible"],
                         <<>>)
  /\ UNCHANGED <<submissions, engineVars>>

\* the bodies of verify-otp: submissionId a string or not, otp a string
VerifyBodies ==
  [submissionId : {Absent} \cup {Some(id) : id \in RequestIds}, otp : BodyOtps]

\* the status values of a PATCH body
PatchStatuses == {Some(""), Some("rejected")}

NextServer ==
  \/ \E h \in Headers : GetSubmissions(h)
  \/ \E h \in Headers, id \in RequestIds : GetSubmissionById(h, id)
  \/ \E id \in RequestIds : GetPublicSubmission(id)
  \/ \E body \in IntakeBodies : CreateSubmission(body)
  \/ \E h \in Headers, id \in RequestIds, st \in PatchStatuses : UpdateStatus(h, id, st)
  \/ \E contact \in BOOLEAN, otp \in Otps : SubmitContact(contact, otp)
  \/ \E body \in VerifyBodies : VerifyOtp(body)
  \/ \E h \in Headers : GetContactMessages(h)
  \/ \E id \in RequestIds : DownloadPdf(id)

SpecServer == Init /\ [][NextServer]_vars

-----------------------------------------------------------------------------
(* Properties of the engine.                                                *)

\* the unclamped sum of line 21
rawSum == educationScore + languageScore + workScore + financialScore

\* the field holds a string that the conversion turns into a number
Parses(f, conv(_)) == f # Absent /\ ~conv(f[1]).nan

IsPrefix(a, b) == Len(a) <= Len(b) /\ SubSeq(b, 1, Len(a)) = a

\* C1: for every profile the returned score is an integer between 0 and 100.
C1_ScoreInRange ==
  pc = "done" => score \in 0..100

\* a call has returned the full score of 100
C1_Witness ==
  pc = "done" /\ score = 100 /\ rawSum = 100

\* C2: the returned isEligible is true if and only if the returned score
\* is at least 60.
C2_EligibleIffSixty ==
  pc = "done" => (isEligible <=> score >= 60)

\* a call has returned a score between 60 and 69 with isEligible true
C2_Witness ==
  pc = "done" /\ score \in 60..69 /\ isEligible

\* C3: the language category is scored only when hasLanguageTest is "yes",
\* languageTest is present and ieltsScore is present and parses as a number;
\* in every other case the contribution is 0 and exactly the fixed
\* no-test weakness is appended.
C3_LanguageScoredOnlyWhenParsable ==
  [][(/\ pc = "language"
      /\ ~(/\ Is(sub.hasLanguageTest, "yes")
           /\ sub.languageTest # Absent
           /\ Parses(sub.ieltsScore, parseFloat)))
     => /\ languageScore' = 0
        /\ weaknesses' = Append(weaknesses, NoLanguageTest)
        /\ strengths' = strengths]_vars

\* C4: when hasWorkExperience is not "yes", or workExperienceYears is absent
\* or does not parse as an integer, the work contribution is 5 and nothing
\* is appended to strengths or weaknesses.
C4_WorkFloorWithoutMessage ==
  [][(/\ pc = "work"
      /\ ~(/\ Is(sub.hasWorkExperience, "yes")
           /\ Parses(sub.workExperienceYears, parseInt)))
     => /\ workScore' = 5
        /\ strengths' = strengths
        /\ weaknesses' = weaknesses]_vars

\* C5: for bachelor and 12th, when educationGrade is absent or does not
\* parse as a number, or (for bachelor) gradeType is absent, the education
\* contribution is the base points alone and no message is appended.
C5_NoBonusWithoutParsableGrade ==
  [][(/\ pc = "education"
      /\ \/ /\ Is(sub.education, "bachelor")
            /\ ~(Parses(sub.educationGrade, parseFloat) /\ sub.gradeType # Absent)
         \/ /\ Is(sub.education, "12th")
            /\ ~Parses(sub.educationGrade, parseFloat))
     => /\ educationScore' = (IF Is(sub.education, "bachelor") THEN 25 ELSE 20)
        /\ strengths' = strengths
        /\ weaknesses' = weaknesses]_vars

\* a tracked profile has been scored a second time, after its first result
\* was kept, and the call produced four strengths
C6_Witness ==
  /\ pc = "done"
  /\ first # NoCall
  /\ first[1].submission = sub
  /\ Len(strengths) = 4

\* C6: the engine keeps no state between calls: a call starts with score 0
\* and two empty arrays, and two calls with the same profile, whatever calls
\* lie between them, return equal score, isEligible, suggestion, strengths
\* and weaknesses.
C6_SameProfileSameResult ==
  /\ pc = "education" => score = 0 /\ strengths = <<>> /\ weaknesses = <<>>
  /\ (pc = "done" /\ first # NoCall /\ first[1].submission = sub)
       => Result = first[1].result

\* the points the claim gives for an IELTS score (in tenths)
IeltsTable(x) ==
  IF x < 55 THEN 10
  ELSE IF x < 60 THEN 15
  ELSE IF x < 65 THEN 20
  ELSE IF x < 75 THEN 25
  ELSE 30

IeltsScored ==
  /\ Is(sub.hasLanguageTest, "yes")
  /\ Is(sub.languageTest, "ielts")
  /\ Parses(sub.ieltsScore, parseFloat)

\* an IELTS score of the middle band has been scored
C7_Witness ==
  pc = "done" /\ IeltsScored /\ languageScore = 20 /\ score > 20

\* C7: with hasLanguageTest "yes" and languageTest "ielts", the language
\* contribution is 10, 15, 20, 25, 30 for the bands below 5.5, [5.5,6.0),
\* [6.0,6.5), [6.5,7.5), >= 7.5, and for every parsable score that is not
\* lower than the submitted one, all other fields unchanged, neither the
\* language contribution nor the total score is lower.
C7_IeltsMonotone ==
  (pc = "done" /\ IeltsScored) =>
    LET a == parseFloat(sub.ieltsScore[1]).v
    IN  /\ languageScore = IeltsTable(a)
        /\ \A x \in Values.ieltsScore :
             (Parses(x, parseFloat) /\ parseFloat(x[1]).v >= a) =>
               LET b == calculateLanguageScore([sub EXCEPT !.ieltsScore = x], <<>>, <<>>).score
               IN  /\ b >= languageScore
                   /\ totalScore(educationScore, b, workScore, financialScore) >= score

\* a call has returned the 'potential' message
C8_Witness ==
  pc = "done" /\ score \in 55..64 /\ suggestion = Potential /\ Len(weaknesses) > 0

\* C8: the suggestion is one of five fixed messages, chosen by the final
\* score alone: 85 and more excellent, 75..84 great, 65..74 good, 55..64
\* potential, below 55 needs improvement.
C8_SuggestionByScore ==
  pc = "done" =>
    suggestion = CASE score \in 85..100 -> Excellent
                   [] score \in 75..84  -> Great
                   [] score \in 65..74  -> Good
                   [] score \in 55..64  -> Potential
                   [] score \in 0..54   -> NeedsImprovement

\* lines 16-21 for the profile p: the sum of the four contributions
sumOfContributions(p) ==
  calculateEducationScore(p, <<>>, <<>>).score
    + calculateLanguageScore(p, <<>>, <<>>).score
    + calculateWorkExperienceScore(p, <<>>, <<>>).score
    + calculateFinancialScore(p, <<>>, <<>>).score

\* C9 as stated: over the profiles a call may carry, the unclamped sum has
\* maximum 105 and minimum 0, and for some profile the clamp to 100 changes
\* the result.
C9_UnclampedMax105Min0 ==
  pc = "idle" =>
    /\ \A p \in Callable : sumOfContributions(p) \in 0..105
    /\ \E p \in Callable : sumOfContributions(p) = 105
    /\ \E p \in Callable : sumOfContributions(p) = 0
    /\ \E p \in Callable :
         sumOfContributions(p) > 100
           /\ totalScore(calculateEducationScore(p, <<>>, <<>>).score,
                         calculateLanguageScore(p, <<>>, <<>>).score,
                         calculateWorkExperienceScore(p, <<>>, <<>>).score,
                         calculateFinancialScore(p, <<>>, <<>>).score)
                # sumOfContributions(p)

\* the profile with every field absent has been scored: 0 + 0 + 5 + 10
C9_Witness ==
  pc = "done" /\ sub = EmptyProfile /\ rawSum = 15 /\ score = 15

\* C9, amended: over all profiles the unclamped sum of the four contributions
\* is at least 15 and at most 100, so the clamp never changes the result.
C9_UnclampedBetween15And100 ==
  pc = "done" => rawSum \in 15..100 /\ score = rawSum

\* the number of category scorers that have run when control is at l
CategoriesRun(l) ==
  CASE l = "education" -> 0
    [] l = "language"  -> 1
    [] l = "work"      -> 2
    [] l = "financial" -> 3
    [] OTHER           -> 4

\* a call has returned two strengths and two weaknesses
C10_Witness ==
  pc = "done" /\ Len(strengths) = 2 /\ Len(weaknesses) = 2

\* C10: within a call the categories run in the order education, language,
\* work, financial; every step leaves the entries already in strengths and
\* in weaknesses where they are, and each category appends at most one
\* string to the two lists together, so they never hold more than four.
C10_AppendOnlyInCategoryOrder ==
  [][/\ pc = "education" => pc' = "language"
     /\ pc = "language" => pc' = "work"
     /\ pc = "work" => pc' = "financial"
     /\ pc = "financial" => pc' = "aggregate"
     /\ pc # "idle" =>
          /\ IsPrefix(strengths, strengths')
          /\ IsPrefix(weaknesses, weaknesses')
          /\ Len(strengths') + Len(weaknesses') <= CategoriesRun(pc')
          /\ Len(strengths') + Len(weaknesses')
               <= Len(strengths) + Len(weaknesses)
                    + (IF pc \in {"education", "language", "work", "financial"} THEN 1 ELSE 0)]_vars

\* the four contributions, in the order of lines 16-19
Contributions == <<educationScore, languageScore, workScore, financialScore>>

\* the bachelor scenario has been scored
C11_Witness ==
  pc = "done" /\ sub = BachelorProfile /\ score = 79 /\ Len(strengths) = 4

\* C11: the worked scenarios: phd + IELTS 8.0 + 6 years + above-60 gives
\* 35 + 30 + 15 + 20 = 100, eligible, excellent; bachelor CGPA 7.5 + TOEFL 95
\* + 3 years + 20-40 gives 28 + 25 + 12 + 14 = 79, eligible, great; education
\* "10th" alone gives 15 + 0 + 5 + 10 = 30, not eligible, needs improvement;
\* the all-absent profile gives 0 + 0 + 5 + 10 = 15, not eligible, with the
\* no-language-test weakness.
C11_WorkedScenarios ==
  pc = "done" =>
    /\ sub = PhdProfile =>
         /\ Contributions = <<35, 30, 15, 20>>
         /\ score = 100 /\ isEligible /\ suggestion = Excellent
    /\ sub = BachelorProfile =>
         /\ Contributions = <<28, 25, 12, 14>>
         /\ score = 79 /\ isEligible /\ suggestion = Great
    /\ sub = TenthProfile =>
         /\ Contributions = <<15, 0, 5, 10>>
         /\ score = 30 /\ ~isEligible /\ suggestion = NeedsImprovement
    /\ sub = EmptyProfile =>
         /\ Contributions = <<0, 0, 5, 10>>
         /\ score = 15 /\ ~isEligible
         /\ weaknesses = <<NoLanguageTest>>

\* the education points the claim gives to a bachelor's grade x (in tenths)
\* on the scale t
BachelorBonus(t, x) ==
  IF t = "cgpa"
  THEN IF x >= 85 THEN 5 ELSE IF x >= 70 THEN 3 ELSE IF x >= 60 THEN 1 ELSE 0
  ELSE IF x >= 750 THEN 5 ELSE IF x >= 600 THEN 3 ELSE 0

\* a bachelor's grade x on the scale t is reported as a strength
BachelorStrength(t, x) == IF t = "cgpa" THEN x >= 70 ELSE x >= 600

\* a bachelor's percentage of 60 has been scored with 3 points of bonus
C15_Witness ==
  /\ pc = "language"
  /\ Is(sub.education, "bachelor")
  /\ Is(sub.gradeType, "percentage")
  /\ Parses(sub.educationGrade, parseFloat)
  /\ educationScore = 28
  /\ Len(strengths) = 1

\* C15: the education contribution is the base points phd 35, master 30,
\* bachelor 25, "12th" 20, "10th" 15, anything else 0, plus a bonus only for
\* bachelor and "12th"; for bachelor the bonus is 5, 3, 1, 0 for a cgpa of at
\* least 8.5, 7.0, 6.0, lower (strength, strength, weakness, weakness) and
\* 5, 3, 0 for a percentage of at least 75, 60, lower (strength, strength,
\* weakness); "10th" always appends the minimum-qualification weakness.
C15_EducationTable ==
  pc = "language" =>
    LET ed == sub.education
        t  == sub.gradeType
        x  == parseFloat(sub.educationGrade[1]).v
    IN  /\ Is(ed, "phd") => educationScore = 35
        /\ Is(ed, "master") => educationScore = 30
        /\ Is(ed, "bachelor") => educationScore - 25 \in {0, 1, 3, 5}
        /\ Is(ed, "12th") => educationScore - 20 \in {0, 1, 3, 5}
        /\ Is(ed, "10th") =>
             /\ educationScore = 15
             /\ strengths = <<>>
             /\ weaknesses = <<Msg("Minimum education qualification - consider completing 12th")>>
        /\ ed \notin {Some("phd"), Some("master"), Some("bachelor"), Some("12th"), Some("10th")} =>
             /\ educationScore = 0
             /\ strengths = <<>>
             /\ weaknesses = <<>>
        /\ (/\ Is(ed, "bachelor")
            /\ t \in {Some("cgpa"), Some("percentage")}
            /\ Parses(sub.educationGrade, parseFloat)) =>
             /\ educationScore = 25 + BachelorBonus(t[1], x)
             /\ Len(strengths) = (IF BachelorStrength(t[1], x) THEN 1 ELSE 0)
             /\ Len(weaknesses) = (IF BachelorStrength(t[1], x) THEN 0 ELSE 1)

\* the bonus the claim gives to a 12th grade x (in tenths)
TwelfthBonus(x) ==
  IF x >= 850 THEN 5 ELSE IF x >= 700 THEN 3 ELSE IF x >= 600 THEN 1 ELSE 0

\* a 12th grade of 85 with gradeType "cgpa" has been scored with 5 points
C16_Witness ==
  /\ pc = "language"
  /\ Is(sub.education, "12th")
  /\ Is(sub.gradeType, "cgpa")
  /\ Parses(sub.educationGrade, parseFloat)
  /\ educationScore = 25

\* C16: for education "12th" with a parsable grade the bonus is 5, 3, 1, 0
\* for a grade of at least 85, 70, 60, lower (strength, strength, weakness,
\* weakness) whatever gradeType is, and a profile that differs only in
\* gradeType gets the same contribution and the same messages.
C16_TwelfthIgnoresGradeType ==
  (/\ pc = "language"
   /\ Is(sub.education, "12th")
   /\ Parses(sub.educationGrade, parseFloat)) =>
    LET x == parseFloat(sub.educationGrade[1]).v
    IN  /\ educationScore = 20 + TwelfthBonus(x)
        /\ Len(strengths) = (IF x >= 700 THEN 1 ELSE 0)
        /\ Len(weaknesses) = (IF x >= 700 THEN 0 ELSE 1)
        /\ \A t \in Values.gradeType :
             calculateEducationScore([sub EXCEPT !.gradeType = t], <<>>, <<>>)
               = Out(educationScore, strengths, weaknesses)

\* the language test named by the submission is none of ielts, toefl, pte
OtherTest == sub.languageTest \notin {Some("ielts"), Some("toefl"), Some("pte")}

\* C17 as stated: with hasLanguageTest "yes", ieltsScore present and
\* languageTest present but none of ielts, toefl, pte, the language
\* contribution is 0 and nothing is appended to strengths or weaknesses.
C17_OtherTestSilent ==
  [][(/\ pc = "language"
      /\ Is(sub.hasLanguageTest, "yes")
      /\ sub.ieltsScore # Absent
      /\ sub.languageTest # Absent
      /\ OtherTest)
     => /\ languageScore' = 0
        /\ strengths' = strengths
        /\ weaknesses' = weaknesses]_vars

\* an unrecognized, non-empty languageTest has been scored: 0 points and
\* no message
C17_Witness ==
  /\ pc = "work"
  /\ Is(sub.hasLanguageTest, "yes")
  /\ Is(sub.languageTest, "duolingo")
  /\ Parses(sub.ieltsScore, parseFloat)
  /\ languageScore = 0
  /\ weaknesses = <<>>

\* C17, amended: with hasLanguageTest "yes", a non-empty ieltsScore and a
\* non-empty languageTest that is none of ielts, toefl, pte, the language
\* contribution is 0 and nothing is appended to strengths or weaknesses.
C17_NonEmptyOtherTestSilent ==
  [][(/\ pc = "language"
      /\ Is(sub.hasLanguageTest, "yes")
      /\ TruthyNum(sub.ieltsScore)
      /\ Truthy(sub.languageTest)
      /\ OtherTest)
     => /\ languageScore' = 0
        /\ strengths' = strengths
        /\ weaknesses' = weaknesses]_vars

\* the all-absent profile has been scored with the two floors alone
C18_Witness ==
  pc = "done" /\ workScore = 5 /\ financialScore = 10 /\ score = 15

\* C18: the work contribution is at least 5 and the financial contribution at
\* least 10, so the sum of the four contributions lies in 15..100 before the
\* clamp, the clamp leaves it as it is and the returned score is at least 15.
C18_FloorsKeepSumInRange ==
  /\ pc \in {"financial", "aggregate", "done"} => workScore >= 5
  /\ pc \in {"aggregate", "done"} =>
       /\ financialScore >= 10
       /\ rawSum >= 5 + 10
       /\ rawSum <= 100
       /\ totalScore(educationScore, languageScore, workScore, financialScore) = rawSum
  /\ pc = "done" => score >= 15

-----------------------------------------------------------------------------
(* Properties of the request handlers.                                      *)

VerifyRoute == "POST /api/eligibility/verify-otp"

\* a verified submission has been scored: the response and the stored score
\* are the 15 points of a profile with no scoring field
C12_Witness ==
  /\ request.route = VerifyRoute
  /\ response.status = 200
  /\ response.body.score = 15
  /\ ~response.body.isEligible
  /\ submissions[request.body.submissionId[1]].eligibilityScore = Some(15)
  /\ submissions[request.body.submissionId[1]].otpVerified

\* C12: verify-otp invokes the engine and writes the stored eligibilityScore
\* only after storage.verifyOtp has accepted the code: on success the stored
\* score and the score and isEligible of the response are the engine's
\* result on the stored submission; on a rejected code or a malformed body it
\* answers 400, does not invoke the engine and writes no score; a submission
\* created by eligibility/submit gets its first score from a successful
\* verification of that submission.
C12_ScoreOnlyAfterVerification ==
  [][/\ request'.route = VerifyRoute =>
          LET body == request'.body
              wellFormed == body.submissionId # Absent /\ Len(body.otp) = 6
              id == body.submissionId[1]
          IN  IF wellFormed /\ verifyOtp(submissions, id, body.otp).isValid
              THEN LET stored == verifyOtp(submissions, id, body.otp).store[id]
                       result == calculateEligibilityScore(asProfile(stored))
                   IN  /\ response'.status = 200
                       /\ response'.engineCalls = <<asProfile(stored)>>
                       /\ response'.body.score = result.score
                       /\ response'.body.isEligible = result.isEligible
                       /\ submissions'[id].eligibilityScore = Some(result.score)
              ELSE /\ response'.status = 400
                   /\ response'.engineCalls = <<>>
                   /\ DOMAIN submissions' = DOMAIN submissions
                   /\ \A i \in DOMAIN submissions :
                        submissions'[i].eligibilityScore = submissions[i].eligibilityScore
     /\ \A i \in DOMAIN submissions' :
          (/\ submissions'[i].otpCode # Absent
           /\ submissions'[i].eligibilityScore # Absent
           /\ i \in DOMAIN submissions => submissions[i].eligibilityScore = Absent)
          => /\ request'.route = VerifyRoute
             /\ request'.body.submissionId = Some(i)
             /\ response'.status = 200]_vars

PdfRoute == "GET /api/eligibility/download-pdf/:id"

\* the report of a submission that the intake handler approved with the
\* engine's 60 points says "Not Eligible"
C13_Witness ==
  /\ request.route = PdfRoute
  /\ response.status = 200
  /\ response.body.eligibilityScore = Some(60)
  /\ submissions[request.id].status = "approved"
  /\ response.body.verdict = "Not Eligible"

\* C13: the report handler derives its verdict from the stored
\* eligibilityScore alone with the cutoff 70: "Eligible" iff the stored score
\* is present and at least 70, "Not Eligible" otherwise, without a call of
\* the engine; for a score in 60..69 the engine's isEligible is true and the
\* report says "Not Eligible", and for every other score in 0..100 the two
\* verdicts agree.
C13_ReportCutoffSeventy ==
  /\ (request.route = PdfRoute /\ response.status = 200) =>
       LET stored == submissions[request.id].eligibilityScore
       IN  /\ response.engineCalls = <<>>
           /\ response.body.verdict \in {"Eligible", "Not Eligible"}
           /\ response.body.verdict = "Eligible" <=> (stored # Absent /\ stored[1] >= 70)
           /\ stored # Absent =>
                (eligible(stored[1]) # (response.body.verdict = "Eligible"))
                  <=> stored[1] \in 60..69
  /\ \A s \in 0..100 :
       /\ s \in 60..69 => eligible(s) /\ ~reportEligible(Some(s))
       /\ s \notin 60..69 => eligible(s) = reportEligible(Some(s))

IntakeRoute == "POST /api/submissions"

\* a body that asks for status "approved" and a score of 99 with education
\* "10th" has been stored with the engine's 30 points and status "pending"
C14_Witness ==
  /\ request.route = IntakeRoute
  /\ request.body.status = Some("approved")
  /\ request.body.eligibilityScore = Some(Dec(99, 0))
  /\ response.status = 201
  /\ response.body.eligibilityScore = Some(30)
  /\ response.body.status = "pending"
  /\ submissions[Len(submissions)] = response.body

\* C14: POST /api/submissions invokes the engine exactly once per accepted
\* request, on the validated body, and the record it creates has the
\* engine's score as eligibilityScore and status "approved" iff the engine's
\* isEligible is true, otherwise "pending", whatever eligibilityScore or
\* status the body contained; a body that fails validation gets 400 and no
\* record is created.
C14_IntakeStoresEngineResult ==
  [][request'.route = IntakeRoute =>
       LET parsed == insertSubmissionSchemaParse(request'.body)
       IN  IF parsed = Absent
           THEN /\ response'.status = 400
                /\ response'.engineCalls = <<>>
                /\ submissions' = submissions
           ELSE LET result == calculateEligibilityScore(asProfile(parsed[1]))
                    record == submissions'[Len(submissions')]
                IN  /\ response'.status = 201
                    /\ response'.engineCalls = <<asProfile(parsed[1])>>
                    /\ Len(submissions') = Len(submissions) + 1
                    /\ SubSeq(submissions', 1, Len(submissions)) = submissions
                    /\ record.eligibilityScore = Some(result.score)
                    /\ record.status = (IF result.isEligible THEN "approved" ELSE "pending")
                    /\ record.status = "approved" <=> result.score >= 60]_vars

AdminRoutes ==
  {"GET /api/submissions", "GET /api/submissions/:id",
   "PATCH /api/submissions/:id/status", "GET /api/contact-messages"}

\* a PATCH with a verified token of the role "user" has been refused
C19_Witness ==
  /\ request.route = "PATCH /api/submissions/:id/status"
  /\ request.authorization = Some(<<"Bearer", Token(JWT_SECRET, FALSE, "user")>>)
  /\ request.body.status = Some("rejected")
  /\ request.id \in DOMAIN submissions
  /\ response.status = 403

\* C19: the body of an admin-only route runs only for a request whose bearer
\* token verifies and whose role is "admin": no token gets 401, an invalid or
\* expired token 403, a verified token of another role 403, and in these
\* three cases the stored submissions are unchanged and the response carries
\* no stored data.
C19_AdminRoutesGated ==
  [][request'.route \in AdminRoutes =>
       LET header   == request'.authorization
           hasToken == header # Absent /\ Len(header[1]) >= 2
           token    == header[1][2]
           verifies == token.key = JWT_SECRET /\ ~token.expired
           refused  == response'.status \in {401, 403}
       IN  /\ ~hasToken => response'.status = 401
           /\ (hasToken /\ ~verifies) => response'.status = 403
           /\ (hasToken /\ verifies /\ token.role # "admin") => response'.status = 403
           /\ (hasToken /\ verifies /\ token.role = "admin") => ~refused
           /\ refused =>
                /\ submissions' = submissions
                /\ DOMAIN response'.body = {"error"}
                /\ response'.engineCalls = <<>>]_vars

====
